---- MODULE Spec2Model ----
(***************************************************************************)
(* A model of assets/logo/gen_images.py: the generator of bloom.ico, the   *)
(* two standalone PNGs and banner.png from bloom.svg.                      *)
(*                                                                         *)
(* Numbers.  Python floats are modelled by exact rationals <<n, d>> with   *)
(* d > 0, kept in lowest terms, so that two rationals are equal exactly    *)
(* when their tuples are.  round() is Python 3's round-half-to-even.       *)
(* Images are modelled by their geometry (width, height, what was pasted   *)
(* or drawn where), not by their pixels.                                   *)
(***************************************************************************)
EXTENDS Integers, Sequences, FiniteSets

VARIABLES
    pc,         \* position of the running script / of the function under test
    fs,         \* the BANNER_FONT_PATHS entries that exist on the file system
    images,     \* the list `images` built by the ICO list comprehension
    ico,        \* what images[0].save(ICO_PATH, ...) was handed
    written,    \* the output files written so far, in order
    font_path,  \* the variable font_path of __main__
    font,       \* the loaded font
    error,      \* the exception that ended the run
    banner,     \* the image returned by render_banner
    size,       \* the size argument of the function under test
    icon,       \* the result of render_icon
    shape,      \* the shape argument of shape_to_aggpath
    scale,      \* the scale argument of shape_to_aggpath
    aggpath,    \* the aggdraw.Path returned by shape_to_aggpath
    svg,        \* the parsed SVG document
    canvas      \* the drawing operations render_svg issued on its canvas

vars == <<pc, fs, images, ico, written, font_path, font, error, banner,
          size, icon, shape, scale, aggpath, svg, canvas>>

--------------------------------------------------------------------------
(* Bounds of the checked instances *)

MaxCoord == 2       \* coordinates of the points of a quadratic segment: 0..MaxCoord
MaxScale == 2       \* size and viewport width of a scale factor: 1..MaxScale
MaxSegs == 2        \* segments of a shape given to shape_to_aggpath
MaxElems == 2       \* elements of a document given to render_svg
MaxSize == 300      \* icon sizes given to render_icon: 1..MaxSize
MaxBearing == 1     \* |left| and |top| of a measured text bounding box
MaxTextW == 2       \* width of a measured text bounding box
MaxTextH == 74      \* height of a measured text bounding box

--------------------------------------------------------------------------
(* Rational arithmetic standing for Python's float arithmetic *)

RECURSIVE GCD(_, _)
GCD(a, b) == IF b = 0 THEN a ELSE GCD(b, a % b)

Abs(n) == IF n < 0 THEN -n ELSE n

Norm(q) ==
    LET g == GCD(Abs(q[1]), q[2])
    IN  <<q[1] \div g, q[2] \div g>>

Rat(n) == <<n, 1>>
RAdd(p, q) == Norm(<<p[1] * q[2] + q[1] * p[2], p[2] * q[2]>>)
RSub(p, q) == Norm(<<p[1] * q[2] - q[1] * p[2], p[2] * q[2]>>)
RMul(p, q) == Norm(<<p[1] * q[1], p[2] * q[2]>>)

\* int(x) for x >= 0: truncation
Trunc(q) == q[1] \div q[2]

\* round(x) for x >= 0: to the nearest integer, a tie to the even one
Round(q) ==
    LET fl == q[1] \div q[2]
        r  == q[1] % q[2]
    IN  IF 2 * r > q[2] \/ (2 * r = q[2] /\ fl % 2 = 1) THEN fl + 1 ELSE fl

Max(a, b) == IF a >= b THEN a ELSE b
Min(a, b) == IF a <= b THEN a ELSE b

--------------------------------------------------------------------------
(* Module constants *)

ICO_SIZES == <<256, 128, 64, 48, 32, 16>>
\* for size in (32, 64)
\* Variant: the two PNG sizes in the other order.
PNG_SIZES_swapped == <<64, 32>>
PNG_SIZES == <<32, 64>>
BLUE == <<0, 132, 190>>
CORNER_RADIUS_RATIO == <<507, 5000>>    \* 0.1014
ICON_GLYPH_RATIO == <<39, 50>>          \* 0.78
BANNER_LOGO_H == 72
BANNER_FONT_SIZE == 72
BANNER_INNER_PAD == 16
BANNER_FONT_PATHS ==
    << "C:/Windows/Fonts/segoeuib.ttf",
       "/usr/share/fonts/truetype/dejavu/DejaVuSans-Bold.ttf",
       "/System/Library/Fonts/Helvetica.ttc" >>
TWO_THIRDS == <<2, 3>>                  \* the float 2/3 of the promotion
SCALE == 4                              \* supersampling factor

--------------------------------------------------------------------------
(* shape_to_aggpath *)

\* The segment types for which shape_to_aggpath has a branch.
HandledTypes == {"Move", "Line", "CubicBezier", "QuadraticBezier", "Arc", "Close"}

Origin == <<0, 0>>
Seg(type, start, c1, c2, end) ==
    [type |-> type, start |-> start, control1 |-> c1, control2 |-> c2, end |-> end]

\* x * scale
Scaled(x, s) == RMul(Rat(x), s)

PathOp(op, args) == [op |-> op, args |-> args]

\* The curveto of the QuadraticBezier branch.
\* Variant: the promotion with weight 1/3 in place of 2/3.
QuadToCubic_third(seg, s) ==
    LET cx == Scaled(seg.control1[1], s)  cy == Scaled(seg.control1[2], s)
        ex == Scaled(seg.end[1], s)       ey == Scaled(seg.end[2], s)
        sx == Scaled(seg.start[1], s)     sy == Scaled(seg.start[2], s)
        third == <<1, 3>>
    IN  PathOp("curveto",
               << RAdd(sx, RMul(third, RSub(cx, sx))),
                  RAdd(sy, RMul(third, RSub(cy, sy))),
                  RAdd(ex, RMul(third, RSub(cx, ex))),
                  RAdd(ey, RMul(third, RSub(cy, ey))),
                  ex, ey >>)

QuadToCubic(seg, s) ==
    LET cx == Scaled(seg.control1[1], s)  cy == Scaled(seg.control1[2], s)
        ex == Scaled(seg.end[1], s)       ey == Scaled(seg.end[2], s)
        sx == Scaled(seg.start[1], s)     sy == Scaled(seg.start[2], s)
    IN  PathOp("curveto",
               << RAdd(sx, RMul(TWO_THIRDS, RSub(cx, sx))),
                  RAdd(sy, RMul(TWO_THIRDS, RSub(cy, sy))),
                  RAdd(ex, RMul(TWO_THIRDS, RSub(cx, ex))),
                  RAdd(ey, RMul(TWO_THIRDS, RSub(cy, ey))),
                  ex, ey >>)

\* One iteration of the loop over the segments: the operations it appends.
\* Variant: a segment matching no other branch is drawn as a chord, like an arc.
SegOps_chord(seg, s) ==
    IF seg.type = "Move" THEN
        << PathOp("moveto", <<Scaled(seg.end[1], s), Scaled(seg.end[2], s)>>) >>
    ELSE IF seg.type = "CubicBezier" THEN
        << PathOp("curveto",
                  << Scaled(seg.control1[1], s), Scaled(seg.control1[2], s),
                     Scaled(seg.control2[1], s), Scaled(seg.control2[2], s),
                     Scaled(seg.end[1], s), Scaled(seg.end[2], s) >>) >>
    ELSE IF seg.type = "QuadraticBezier" THEN
        << QuadToCubic(seg, s) >>
    ELSE IF seg.type = "Close" THEN
        << PathOp("close", <<>>) >>
    ELSE
        << PathOp("lineto", <<Scaled(seg.end[1], s), Scaled(seg.end[2], s)>>) >>

SegOps(seg, s) ==
    IF seg.type = "Move" THEN
        << PathOp("moveto", <<Scaled(seg.end[1], s), Scaled(seg.end[2], s)>>) >>
    ELSE IF seg.type = "Line" THEN
        << PathOp("lineto", <<Scaled(seg.end[1], s), Scaled(seg.end[2], s)>>) >>
    ELSE IF seg.type = "CubicBezier" THEN
        << PathOp("curveto",
                  << Scaled(seg.control1[1], s), Scaled(seg.control1[2], s),
                     Scaled(seg.control2[1], s), Scaled(seg.control2[2], s),
                     Scaled(seg.end[1], s), Scaled(seg.end[2], s) >>) >>
    ELSE IF seg.type = "QuadraticBezier" THEN
        << QuadToCubic(seg, s) >>
    ELSE IF seg.type = "Arc" THEN
        << PathOp("lineto", <<Scaled(seg.end[1], s), Scaled(seg.end[2], s)>>) >>
    ELSE IF seg.type = "Close" THEN
        << PathOp("close", <<>>) >>
    ELSE
        << >>       \* no branch matches: the loop goes on to the next segment

RECURSIVE shape_to_aggpath(_, _)
shape_to_aggpath(segs, s) ==
    IF segs = <<>> THEN <<>>
    ELSE SegOps(Head(segs), s) \o shape_to_aggpath(Tail(segs), s)

--------------------------------------------------------------------------
(* Colors and color_to_rgba *)

\* A fill is Python's None, the color "none", or a color with 8-bit channels.
PyNone == [kind |-> "PyNone", red |-> 0, green |-> 0, blue |-> 0, alpha |-> 0]
Color(r, g, b, a) == [kind |-> "Color", red |-> r, green |-> g, blue |-> b, alpha |-> a]
COLOR_NONE == [kind |-> "ColorNone", red |-> 0, green |-> 0, blue |-> 0, alpha |-> 0]

\* c == other of the color type: both "none", or the same four channels.
ColorEq(c, d) ==
    IF c.kind = "ColorNone" \/ d.kind = "ColorNone" THEN c.kind = d.kind
    ELSE <<c.red, c.green, c.blue, c.alpha>> = <<d.red, d.green, d.blue, d.alpha>>

\* c.opacity: alpha / 255.0
Opacity(c) == Norm(<<c.alpha, 255>>)

\* The result None of color_to_rgba.
NoRGBA == <<>>

\* Variant: only the test `c is None`, without `c == _COLOR_NONE`.
color_to_rgba_isnone(c) ==
    IF c.kind = "PyNone" THEN NoRGBA
    ELSE <<c.red, c.green, c.blue, Trunc(RMul(Opacity(c), Rat(255)))>>

color_to_rgba(c) ==
    IF c.kind = "PyNone" \/ ColorEq(c, COLOR_NONE) THEN NoRGBA
    ELSE <<c.red, c.green, c.blue, Trunc(RMul(Opacity(c), Rat(255)))>>

--------------------------------------------------------------------------
(* Images, render_svg, blue_rounded_rect, render_icon, render_banner *)

\* Image.new("RGBA", (w, h), (0, 0, 0, 0)): a transparent raster.  `from` is
\* the size of the raster the content was drawn on, `rect` the rounded
\* rectangle drawn on it, `ops` the canvas.path calls, `pasted` and `texts`
\* what was pasted and written on it.
NewImage(w, h) ==
    [w |-> w, h |-> h, from |-> <<w, h>>, rect |-> <<>>, ops |-> <<>>,
     pasted |-> <<>>, texts |-> <<>>]

\* img.resize((w, h), Image.LANCZOS)
Resize(img, w, h) == [img EXCEPT !.w = w, !.h = h]

\* bg.paste(img, (x, y), img)
Paste(bg, img, x, y) ==
    [bg EXCEPT !.pasted = Append(@, [img |-> img, x |-> x, y |-> y])]

\* draw.text((x, y), string, font=font, fill=fill)
DrawText(img, x, y, string, fnt, fill) ==
    [img EXCEPT !.texts = Append(@, [x |-> x, y |-> y, string |-> string,
                                      font |-> fnt, fill |-> fill])]

\* The loop of render_svg over svg.elements(), from element i on.
RECURSIVE DrawElements(_, _, _)
DrawElements(elems, i, s) ==
    IF i > Len(elems) THEN <<>>
    ELSE
        LET elem == elems[i]
            fill == color_to_rgba(elem.fill)
            drawn ==
                IF elem.kind # "Shape" THEN <<>>
                ELSE IF fill = NoRGBA THEN <<>>
                ELSE << [elem |-> i,
                         path |-> shape_to_aggpath(elem.segs, s),
                         color |-> <<fill[1], fill[2], fill[3]>>,
                         opacity |-> fill[4]] >>
        IN  drawn \o DrawElements(elems, i + 1, s)

render_svg(doc, sz) ==
    LET vw == IF doc.width # 0 THEN doc.width ELSE sz
        s  == Norm(<<sz, vw>>)
    IN  [NewImage(sz, sz) EXCEPT !.ops = DrawElements(doc.elements, 1, s)]

blue_rounded_rect(w, h) ==
    LET radius == Max(1, Round(RMul(Rat(Min(w, h)), CORNER_RADIUS_RATIO)))
    IN  [NewImage(w, h) EXCEPT
            !.rect = << [box |-> <<0, 0, w - 1, h - 1>>, radius |-> radius,
                         fill |-> BLUE \o <<255>>] >>]

\* glyph_size of render_icon
GlyphSize(sz) == Round(RMul(Rat(sz), ICON_GLYPH_RATIO))

\* offset of render_icon
\* Variant: the offset not halved.
IconOffset_full(sz, glyph_size) == sz - glyph_size

IconOffset(sz, glyph_size) == (sz - glyph_size) \div 2

render_icon(doc, sz) ==
    LET bg == blue_rounded_rect(sz, sz)
        glyph_size == GlyphSize(sz)
        glyph == Resize(render_svg(doc, glyph_size * 4), glyph_size, glyph_size)
        offset == IconOffset(sz, glyph_size)
    IN  Paste(bg, glyph, offset, offset)

\* ty of render_banner
\* Variant: ty without the bounding box's vertical offset.
BannerTextY_nobearing(H, th, bbox) == (H - BANNER_INNER_PAD) - th

BannerTextY(H, th, bbox) == (H - BANNER_INNER_PAD) - th - bbox[2]

\* A font: the file it was loaded from, its size, and the bounding box
\* textbbox((0, 0), "loom", font=font) reports for it: (left, top, right, bottom).
Font(path, sz, bbox) == [path |-> path, size |-> sz, bbox |-> bbox]

render_banner(doc, fnt) ==
    LET glyph == Resize(render_svg(doc, BANNER_LOGO_H * SCALE),
                        BANNER_LOGO_H, BANNER_LOGO_H)
        bbox == fnt.bbox
        tw == bbox[3] - bbox[1]
        th == bbox[4] - bbox[2]
        W == BANNER_LOGO_H + tw + BANNER_INNER_PAD * 2
        H == Max(BANNER_LOGO_H, th) + BANNER_INNER_PAD * 2
        hi_banner == blue_rounded_rect(W * SCALE, H * SCALE)
        bnr == Resize(hi_banner, W, H)
        withGlyph == Paste(bnr, glyph, BANNER_INNER_PAD, (H - BANNER_LOGO_H) \div 2)
        ty == BannerTextY(H, th, bbox)
    IN  DrawText(withGlyph, BANNER_INNER_PAD + BANNER_LOGO_H, ty, "loom", fnt,
                 <<255, 255, 255, 255>>)

--------------------------------------------------------------------------
(* Inputs of the checked instances *)

Grid == (0 .. MaxCoord) \X (0 .. MaxCoord)
SamplePoints == {<<0, 0>>, <<1, 2>>}

\* A segment of a type that is none of the six shape_to_aggpath tests for.
UnhandledSeg == Seg("PathSegment", Origin, Origin, Origin, <<1, 2>>)

SampleSegs ==
    {Seg("Move", Origin, Origin, Origin, e) : e \in SamplePoints}
    \cup {Seg("Line", Origin, Origin, Origin, e) : e \in SamplePoints}
    \cup {Seg("Arc", Origin, Origin, Origin, e) : e \in SamplePoints}
    \cup {Seg("CubicBezier", Origin, c[1], c[2], c[3]) :
            c \in SamplePoints \X SamplePoints \X SamplePoints}
    \cup {Seg("QuadraticBezier", c[1], c[2], Origin, c[3]) :
            c \in SamplePoints \X SamplePoints \X SamplePoints}
    \cup {Seg("Close", Origin, Origin, Origin, Origin), UnhandledSeg}

\* Shapes of up to MaxSegs segments of any type.
ShortShapes == UNION {[1 .. n -> SampleSegs] : n \in 0 .. MaxSegs}

\* A move followed by one quadratic segment, over the whole grid.
QuadShapes ==
    {<< Seg("Move", Origin, Origin, Origin, c[1]),
        Seg("QuadraticBezier", c[1], c[2], Origin, c[3]) >> :
        c \in Grid \X Grid \X Grid}

\* size / vw for sizes and viewport widths in 1..MaxScale
Scales == {Norm(<<sz, vw>>) : sz \in 1 .. MaxScale, vw \in 1 .. MaxScale}

Triangle ==
    << Seg("Move", Origin, Origin, Origin, <<0, 0>>),
       Seg("Line", Origin, Origin, Origin, <<1, 2>>),
       Seg("Line", Origin, Origin, Origin, <<2, 0>>),
       Seg("Close", Origin, Origin, Origin, Origin) >>

Curvy ==
    << Seg("Move", Origin, Origin, Origin, <<0, 0>>),
       Seg("QuadraticBezier", <<0, 0>>, <<1, 2>>, Origin, <<2, 0>>),
       UnhandledSeg,
       Seg("Arc", Origin, Origin, Origin, <<0, 0>>) >>

SampleAlphas == {0, 128, 255}
WHITE == <<255, 255, 255>>
BLACK == <<0, 0, 0>>

Fills ==
    {PyNone, COLOR_NONE}
    \cup {Color(c[1], c[2], c[3], a) : c \in {WHITE, BLACK}, a \in SampleAlphas}

Element(kind, fill, segs) == [kind |-> kind, fill |-> fill, segs |-> segs]

Elements ==
    {Element("Shape", f, p) : f \in Fills, p \in {Triangle, Curvy}}
    \cup {Element("Group", PyNone, <<>>), Element("SVG", PyNone, <<>>)}

Document(width, elems) == [width |-> width, elements |-> elems]

Documents ==
    {Document(w, es) : w \in 0 .. MaxScale,
                       es \in UNION {[1 .. n -> Elements] : n \in 0 .. MaxElems}}

\* bloom.svg: only the glyph, white fills, no background.
GlyphDoc ==
    Document(2, << Element("SVG", PyNone, <<>>),
                   Element("Shape", Color(255, 255, 255, 255), Triangle),
                   Element("Shape", Color(255, 255, 255, 255), Curvy) >>)

EmptyDoc == Document(0, <<>>)

\* The bounding boxes a font may report for "loom".
BBoxes ==
    {<<l, t, l + tw, t + th>> :
        l \in -MaxBearing .. MaxBearing, t \in -MaxBearing .. MaxBearing,
        tw \in 0 .. MaxTextW, th \in 0 .. MaxTextH}

--------------------------------------------------------------------------
(* The script: __main__ *)

\* Path(p).exists()
Exists(p, files) == p \in files

\* next((p for p in paths if Path(p).exists()), None)
\* Variant: the last existing candidate instead of the first.
RECURSIVE ResolveFontPath_last(_, _)
ResolveFontPath_last(paths, files) ==
    IF paths = <<>> THEN "None"
    ELSE IF Exists(paths[Len(paths)], files) THEN paths[Len(paths)]
    ELSE ResolveFontPath_last(SubSeq(paths, 1, Len(paths) - 1), files)

RECURSIVE ResolveFontPath(_, _)
ResolveFontPath(paths, files) ==
    IF paths = <<>> THEN "None"
    ELSE IF Exists(Head(paths), files) THEN Head(paths)
    ELSE ResolveFontPath(Tail(paths), files)

\* RuntimeError(f"No suitable font found. Tried: {BANNER_FONT_PATHS}")
\* Variant: the message lists only the candidates that exist.
NoFontError_found ==
    [type |-> "RuntimeError", text |-> "No suitable font found. Tried: ",
     tried |-> SelectSeq(BANNER_FONT_PATHS, LAMBDA p : Exists(p, fs))]

NoFontError ==
    [type |-> "RuntimeError", text |-> "No suitable font found. Tried: ",
     tried |-> BANNER_FONT_PATHS]

\* images[0].save(ICO_PATH, format="ICO", append_images=images[1:])
\* Variant: append_images=images instead of images[1:].
IcoSave_all(imgs) ==
    [path |-> "bloom.ico", format |-> "ICO", primary |-> imgs[1],
     append_images |-> imgs]

IcoSave(imgs) ==
    [path |-> "bloom.ico", format |-> "ICO", primary |-> imgs[1],
     append_images |-> Tail(imgs)]

\* f"bloom{size}.png"
PngName(sz) == IF sz = 32 THEN "bloom32.png" ELSE "bloom64.png"

File(path, img) == [path |-> path, image |-> img]

Init ==
    /\ pc = "read_svg"
    /\ fs \in SUBSET {BANNER_FONT_PATHS[i] : i \in 1 .. Len(BANNER_FONT_PATHS)}
    /\ images = <<>> /\ ico = <<>> /\ written = <<>>
    /\ font_path = "None" /\ font = <<>> /\ error = <<>> /\ banner = <<>>
    /\ size = 0 /\ icon = <<>> /\ shape = <<>> /\ scale = Rat(1)
    /\ aggpath = <<>> /\ svg = EmptyDoc /\ canvas = <<>>

unchangedTests == <<size, icon, shape, scale, aggpath, canvas>>

\* svg_content = SVG_PATH.read_text(encoding="utf-8")
ReadSvg ==
    /\ pc = "read_svg"
    /\ svg' = GlyphDoc
    /\ pc' = "ico_frames"
    /\ UNCHANGED <<fs, images, ico, written, font_path, font, error, banner>>
    /\ UNCHANGED unchangedTests

\* One element of [render_icon(svg_content, s) for s in ICO_SIZES]
RenderFrame ==
    /\ pc = "ico_frames"
    /\ Len(images) < Len(ICO_SIZES)
    /\ images' = Append(images, render_icon(svg, ICO_SIZES[Len(images) + 1]))
    /\ pc' = IF Len(images') = Len(ICO_SIZES) THEN "ico_save" ELSE "ico_frames"
    /\ UNCHANGED <<fs, ico, written, font_path, font, error, banner, svg>>
    /\ UNCHANGED unchangedTests

SaveIco ==
    /\ pc = "ico_save"
    /\ ico' = <<IcoSave(images)>>
    /\ written' = Append(written, File("bloom.ico", images[1]))
    /\ pc' = "png"
    /\ UNCHANGED <<fs, images, font_path, font, error, banner, svg>>
    /\ UNCHANGED unchangedTests

\* The PNG files written before this iteration of the loop over (32, 64).
PngsWritten == Len(written) - 1

\* One iteration of: for size in (32, 64)
SavePng ==
    /\ pc = "png"
    /\ PngsWritten < Len(PNG_SIZES)
    /\ LET sz == PNG_SIZES[PngsWritten + 1]
           img == Resize(render_icon(svg, sz * 4), sz, sz)
       IN  written' = Append(written, File(PngName(sz), img))
    /\ pc' = IF PngsWritten + 1 = Len(PNG_SIZES) THEN "font_resolve" ELSE "png"
    /\ UNCHANGED <<fs, images, ico, font_path, font, error, banner, svg>>
    /\ UNCHANGED unchangedTests

ResolveFont ==
    /\ pc = "font_resolve"
    /\ font_path' = ResolveFontPath(BANNER_FONT_PATHS, fs)
    /\ pc' = "font_check"
    /\ UNCHANGED <<fs, images, ico, written, font, error, banner, svg>>
    /\ UNCHANGED unchangedTests

\* if font_path is None: raise RuntimeError(...)
RaiseNoFont ==
    /\ pc = "font_check"
    /\ font_path = "None"
    /\ error' = <<NoFontError>>
    /\ pc' = "raised"
    /\ UNCHANGED <<fs, images, ico, written, font_path, font, banner, svg>>
    /\ UNCHANGED unchangedTests

\* font = ImageFont.truetype(font_path, size=BANNER_FONT_SIZE)
LoadFont ==
    /\ pc = "font_check"
    /\ font_path # "None"
    /\ \E bbox \in BBoxes : font' = <<Font(font_path, BANNER_FONT_SIZE, bbox)>>
    /\ pc' = "banner_render"
    /\ UNCHANGED <<fs, images, ico, written, font_path, error, banner, svg>>
    /\ UNCHANGED unchangedTests

RenderBanner ==
    /\ pc = "banner_render"
    /\ banner' = <<render_banner(svg, font[1])>>
    /\ pc' = "banner_save"
    /\ UNCHANGED <<fs, images, ico, written, font_path, font, error, svg>>
    /\ UNCHANGED unchangedTests

SaveBanner ==
    /\ pc = "banner_save"
    /\ written' = Append(written, File("banner.png", banner[1]))
    /\ pc' = "done"
    /\ UNCHANGED <<fs, images, ico, font_path, font, error, banner, svg>>
    /\ UNCHANGED unchangedTests

Next ==
    \/ ReadSvg \/ RenderFrame \/ SaveIco \/ SavePng \/ ResolveFont
    \/ RaiseNoFont \/ LoadFont \/ RenderBanner \/ SaveBanner

Spec == Init /\ [][Next]_vars

--------------------------------------------------------------------------
(* The functions on their own, over all the inputs of the bounds *)

\* The variables of the script, which a function called on its own leaves alone.
scriptVars == <<fs, images, ico, written, font_path, font, error, banner>>

ScriptIdle ==
    /\ fs = {} /\ images = <<>> /\ ico = <<>> /\ written = <<>>
    /\ font_path = "None" /\ font = <<>> /\ error = <<>> /\ banner = <<>>

\* shape_to_aggpath(shape, scale)
InitPath ==
    /\ pc = "path_call"
    /\ shape \in ShortShapes \cup QuadShapes
    /\ scale \in Scales
    /\ aggpath = <<>>
    /\ size = 0 /\ icon = <<>> /\ svg = EmptyDoc /\ canvas = <<>>
    /\ ScriptIdle

ShapeToAggPath ==
    /\ pc = "path_call"
    /\ aggpath' = shape_to_aggpath(shape, scale)
    /\ pc' = "path_returned"
    /\ UNCHANGED <<shape, scale, size, icon, svg, canvas>>
    /\ UNCHANGED scriptVars

SpecPath == InitPath /\ [][ShapeToAggPath]_vars

\* render_svg(svg_content, size)
InitSvg ==
    /\ pc = "svg_call"
    /\ svg \in Documents
    /\ size \in 1 .. MaxScale
    /\ canvas = <<>>
    /\ icon = <<>> /\ shape = <<>> /\ scale = Rat(1) /\ aggpath = <<>>
    /\ ScriptIdle

RenderSvg ==
    /\ pc = "svg_call"
    /\ canvas' = <<render_svg(svg, size)>>
    /\ pc' = "svg_returned"
    /\ UNCHANGED <<svg, size, icon, shape, scale, aggpath>>
    /\ UNCHANGED scriptVars

SpecSvg == InitSvg /\ [][RenderSvg]_vars

\* render_icon(svg_content, size)
InitIcon ==
    /\ pc = "icon_call"
    /\ svg = GlyphDoc
    /\ size \in 1 .. MaxSize
    /\ icon = <<>>
    /\ canvas = <<>> /\ shape = <<>> /\ scale = Rat(1) /\ aggpath = <<>>
    /\ ScriptIdle

RenderIcon ==
    /\ pc = "icon_call"
    /\ icon' = <<render_icon(svg, size)>>
    /\ pc' = "icon_returned"
    /\ UNCHANGED <<svg, size, canvas, shape, scale, aggpath>>
    /\ UNCHANGED scriptVars

SpecIcon == InitIcon /\ [][RenderIcon]_vars

--------------------------------------------------------------------------
(* Properties of the script (checked under Spec) *)

\* font_path has been computed
FontResolved == pc \in {"font_check", "raised", "banner_render", "banner_save", "done"}

WrittenPaths == [i \in 1 .. Len(written) |-> written[i].path]

IsPrefix(p, q) == Len(p) <= Len(q) /\ \A i \in 1 .. Len(p) : p[i] = q[i]

OUTPUT_ORDER == <<"bloom.ico", "bloom32.png", "bloom64.png", "banner.png">>

\* C1: once the font path is resolved and at least one candidate of
\* BANNER_FONT_PATHS exists, font_path is a candidate that exists and no
\* candidate before it in the list exists; when only the last candidate
\* exists, font_path is the last candidate.
C1_FirstExistingFontWins ==
    (FontResolved /\ fs # {}) =>
        /\ \E i \in 1 .. Len(BANNER_FONT_PATHS) :
              /\ font_path = BANNER_FONT_PATHS[i]
              /\ Exists(BANNER_FONT_PATHS[i], fs)
              /\ \A j \in 1 .. i - 1 : ~Exists(BANNER_FONT_PATHS[j], fs)
        /\ (fs = {BANNER_FONT_PATHS[Len(BANNER_FONT_PATHS)]}
              => font_path = BANNER_FONT_PATHS[Len(BANNER_FONT_PATHS)])

C1_Witness ==
    /\ pc = "banner_render"
    /\ fs = {BANNER_FONT_PATHS[3]}
    /\ font_path = "/System/Library/Fonts/Helvetica.ttc"
    /\ font[1].path = font_path

\* C2: when no candidate font path exists, no font is ever loaded,
\* render_banner is never called and banner.png is never written; once the
\* font path is resolved the only step the run can take is the raise, and
\* the run ends with a RuntimeError whose message lists every path of
\* BANNER_FONT_PATHS.
C2_NoFontAborts ==
    (fs = {}) =>
        /\ font = <<>>
        /\ banner = <<>>
        /\ \A i \in 1 .. Len(written) : written[i].path # "banner.png"
        /\ pc \notin {"banner_render", "banner_save", "done"}
        /\ (pc = "font_check" => (font_path = "None" /\ ENABLED RaiseNoFont /\ ~ENABLED LoadFont))
        /\ (pc = "raised" =>
              /\ Len(error) = 1
              /\ error[1].type = "RuntimeError"
              /\ error[1].tried = BANNER_FONT_PATHS)

C2_Witness ==
    /\ pc = "raised"
    /\ fs = {}
    /\ Len(error) = 1
    /\ Len(error[1].tried) = 3

\* The frames handed to the icon container: the image save is called on,
\* then append_images.
IcoFrames == <<ico[1].primary>> \o ico[1].append_images

\* C3: the icon container is handed exactly 6 frames, of sizes 256, 128, 64,
\* 48, 32, 16 in that order, the 256px frame as the primary image and the
\* other five appended in order, each frame square with the side requested;
\* every run that completes has saved the icon container.
C3_IcoSixFrames ==
    /\ (pc = "done" => Len(ico) = 1)
    /\ (Len(ico) = 1 =>
          /\ Len(IcoFrames) = 6
          /\ Len(ico[1].append_images) = 5
          /\ ico[1].primary.w = 256
          /\ [i \in 1 .. 6 |-> IcoFrames[i].w] = <<256, 128, 64, 48, 32, 16>>
          /\ \A i \in 1 .. 6 :
                /\ IcoFrames[i].w = ICO_SIZES[i]
                /\ IcoFrames[i].h = ICO_SIZES[i]
                /\ IcoFrames[i].from = <<ICO_SIZES[i], ICO_SIZES[i]>>)

C3_Witness ==
    /\ pc = "done"
    /\ Len(ico) = 1
    /\ ico[1].primary.w = 256
    /\ ico[1].append_images[5].w = 16

\* C9: the outputs are written in the order bloom.ico, bloom32.png,
\* bloom64.png, banner.png; as long as fewer than three are written the font
\* is neither resolved nor loaded and nothing was raised; a run that raised
\* (no candidate font exists) has written exactly the first three, which
\* stay, and not banner.png; a run that is done has written all four.
C9_OutputOrder ==
    /\ IsPrefix(WrittenPaths, OUTPUT_ORDER)
    /\ (Len(written) < 3 => (~FontResolved /\ font_path = "None" /\ font = <<>> /\ error = <<>>))
    /\ (FontResolved => Len(written) >= 3)
    /\ (pc = "raised" => (fs = {} /\ WrittenPaths = SubSeq(OUTPUT_ORDER, 1, 3)))
    /\ (pc = "done" => WrittenPaths = OUTPUT_ORDER)

C9_Witness ==
    /\ pc = "raised"
    /\ WrittenPaths = <<"bloom.ico", "bloom32.png", "bloom64.png">>
    /\ written[2].image.w = 32

--------------------------------------------------------------------------
(* Properties of render_banner (checked under Spec) *)

\* C6: in the banner, with th = b - t and H = max(72, th) + 2*16, the glyph
\* is pasted at x = 16, y = (H - 72) // 2 (its top and bottom margins differ
\* by at most one), the text origin is at x = 16 + 72, and the text's lower
\* edge ty + b is exactly H - 16 while its upper edge ty + t is at least 16.
C6_BannerVerticalPlacement ==
    (Len(banner) = 1) =>
        LET img == banner[1]
            bbox == font[1].bbox
            th == bbox[4] - bbox[2]
            H == (IF th > 72 THEN th ELSE 72) + 2 * 16
            glyph == img.pasted[1]
            text == img.texts[1]
        IN  /\ img.h = H
            /\ Len(img.pasted) = 1 /\ Len(img.texts) = 1
            /\ glyph.x = 16
            /\ glyph.y = (H - 72) \div 2
            /\ glyph.img.h = 72 /\ glyph.img.w = 72
            /\ (H - 72 - glyph.y) - glyph.y \in {0, 1}
            /\ text.x = 16 + 72
            /\ text.string = "loom"
            /\ text.y + bbox[4] = H - 16
            /\ text.y + bbox[2] >= 16

C6_Witness ==
    /\ Len(banner) = 1
    /\ font[1].bbox = <<1, -1, 3, 73>>
    /\ banner[1].h = 106
    /\ banner[1].texts[1].y = 17

\* C10: in the banner, with W = 72 + (r - l) + 2*16, the drawn text's left
\* edge 16 + 72 + l is not left of 16 + 72 and its right edge 16 + 72 + r
\* does not exceed W - 16.
C10_TextInsidePadding ==
    (Len(banner) = 1) =>
        LET img == banner[1]
            bbox == font[1].bbox
            text == img.texts[1]
        IN  /\ img.w = 72 + (bbox[3] - bbox[1]) + 2 * 16
            /\ text.x + bbox[1] >= 16 + 72
            /\ text.x + bbox[3] <= img.w - 16

--------------------------------------------------------------------------
(* Properties of render_icon (checked under SpecIcon) *)

\* C4: render_icon(svg, s) returns an s x s image on which one glyph is
\* pasted; the glyph has side g, the integer nearest to 0.78 * s (a tie
\* going to the even one), was rasterized at 4g x 4g, and sits at offset
\* (s - g) // 2 on both axes, so that 0 <= offset, offset + g <= s and the
\* right/bottom margin exceeds the left/top one by at most one pixel.
C4_IconGlyphCentered ==
    (pc = "icon_returned") =>
        LET img == icon[1]
            glyph == img.pasted[1]
            g == glyph.img.w
            offset == glyph.x
        IN  /\ img.w = size /\ img.h = size
            /\ Len(img.pasted) = 1
            /\ glyph.img.h = g
            /\ 100 * g - 78 * size \in -50 .. 50
            /\ (100 * g - 78 * size \in {-50, 50} => g % 2 = 0)
            /\ glyph.img.from = <<4 * g, 4 * g>>
            /\ glyph.y = offset
            /\ offset = (size - g) \div 2
            /\ 0 <= offset /\ offset + g <= size
            /\ (size - g - offset) - offset \in {0, 1}

C4_Witness ==
    /\ pc = "icon_returned"
    /\ size = 75
    /\ icon[1].pasted[1].img.w = 58
    /\ icon[1].pasted[1].x = 8
    /\ icon[1].w = 75

--------------------------------------------------------------------------
(* Properties of shape_to_aggpath (checked under SpecPath) *)

Handled == {i \in 1 .. Len(shape) : shape[i].type \in HandledTypes}
Unhandled == {i \in 1 .. Len(shape) : shape[i].type \notin HandledTypes}

\* The position in the returned path of the operation of segment i.
OpIndex(i) == Cardinality({j \in Handled : j <= i})

\* C5, as claimed: a shape with a segment of a type outside the handled set
\* makes shape_to_aggpath abort instead of returning a path.
C5_UnhandledSegmentAborts ==
    (Unhandled # {}) => pc # "path_returned"

\* C5, amended: shape_to_aggpath returns normally for every shape; a segment
\* of a type outside the handled set is skipped, contributing no operation,
\* and every handled segment before and after it still contributes exactly
\* one operation, in order: the result is the path of the shape without the
\* unhandled segments.
C5_UnhandledSegmentSkipped ==
    (pc = "path_returned") =>
        /\ Len(aggpath) = Cardinality(Handled)
        /\ \A i \in Handled :
              aggpath[OpIndex(i)].op =
                  (CASE shape[i].type = "Move" -> "moveto"
                     [] shape[i].type \in {"Line", "Arc"} -> "lineto"
                     [] shape[i].type = "Close" -> "close"
                     [] OTHER -> "curveto")
        /\ aggpath = shape_to_aggpath(SelectSeq(shape, LAMBDA g : g.type \in HandledTypes), scale)

C5_Witness ==
    /\ pc = "path_returned"
    /\ Len(shape) = 2
    /\ shape[1] = UnhandledSeg
    /\ shape[2].type = "Line"
    /\ Len(aggpath) = 1
    /\ aggpath[1].op = "lineto"

\* C7: for every quadratic segment with start S, control C and end E and
\* every scale factor, the operation emitted is a curveto ending at the
\* scaled E whose control points c1, c2 satisfy 3*c1 = S' + 2*C' and
\* 3*c2 = E' + 2*C' on both axes (S', C', E' the scaled points), and they are
\* the control points of the unscaled promotion, scaled.
C7_QuadraticPromotion ==
    (pc = "path_returned") =>
        \A i \in Handled :
            (shape[i].type = "QuadraticBezier") =>
                LET a == aggpath[OpIndex(i)].args
                    S == <<Scaled(shape[i].start[1], scale), Scaled(shape[i].start[2], scale)>>
                    C == <<Scaled(shape[i].control1[1], scale), Scaled(shape[i].control1[2], scale)>>
                    E == <<Scaled(shape[i].end[1], scale), Scaled(shape[i].end[2], scale)>>
                    u == QuadToCubic(shape[i], Rat(1)).args
                IN  /\ aggpath[OpIndex(i)].op = "curveto"
                    /\ Len(a) = 6
                    /\ <<a[5], a[6]>> = E
                    /\ \A k \in 1 .. 2 :
                          /\ RMul(Rat(3), a[k]) = RAdd(S[k], RMul(Rat(2), C[k]))
                          /\ RMul(Rat(3), a[2 + k]) = RAdd(E[k], RMul(Rat(2), C[k]))
                    /\ \A k \in 1 .. 6 : a[k] = RMul(u[k], scale)

C7_Witness ==
    /\ pc = "path_returned"
    /\ Len(shape) = 2
    /\ shape[2].type = "QuadraticBezier"
    /\ shape[2].start = <<0, 1>> /\ shape[2].control1 = <<2, 2>> /\ shape[2].end = <<1, 0>>
    /\ scale = <<1, 2>>
    /\ aggpath[2].args = << <<2, 3>>, <<5, 6>>, <<5, 6>>, <<2, 3>>, <<1, 2>>, <<0, 1>> >>

--------------------------------------------------------------------------
(* Properties of render_svg (checked under SpecSvg) *)

\* The elements that are shapes with a fill that is neither absent nor "none".
Drawable ==
    {i \in 1 .. Len(svg.elements) :
        /\ svg.elements[i].kind = "Shape"
        /\ svg.elements[i].fill.kind \notin {"PyNone", "ColorNone"}}

\* C8: render_svg returns a size x size image on which it has drawn exactly
\* the drawable elements, each once and in document order; the other
\* elements contribute no operation; each drawn shape is filled with the RGB
\* of its own fill at an alpha in 0..255, the integer part of opacity * 255
\* (the fill's own 8-bit alpha, opacity being alpha / 255).
C8_DrawsFilledShapesInOrder ==
    (pc = "svg_returned") =>
        LET img == canvas[1]
            ops == img.ops
        IN  /\ img.w = size /\ img.h = size
            /\ Len(ops) = Cardinality(Drawable)
            /\ \A k \in 1 .. Len(ops) : ops[k].elem \in Drawable
            /\ \A k \in 1 .. Len(ops) : \A m \in 1 .. Len(ops) :
                  k < m => ops[k].elem < ops[m].elem
            /\ \A k \in 1 .. Len(ops) :
                  LET fill == svg.elements[ops[k].elem].fill
                  IN  /\ ops[k].color = <<fill.red, fill.green, fill.blue>>
                      /\ ops[k].opacity \in 0 .. 255
                      /\ ops[k].opacity = fill.alpha

C8_Witness ==
    /\ pc = "svg_returned"
    /\ Len(svg.elements) = 2
    /\ svg.elements[1].kind = "Shape" /\ svg.elements[1].fill = COLOR_NONE
    /\ svg.elements[2].kind = "Shape" /\ svg.elements[2].fill = Color(255, 255, 255, 128)
    /\ Len(canvas[1].ops) = 1
    /\ canvas[1].ops[1].elem = 2
    /\ canvas[1].ops[1].opacity = 128

====
